---------------------------- MODULE Spec2Model ----------------------------
(***************************************************************************)
(* The offline map-tile cache of mymap (src/unnamed/part_007): the         *)
(* IndexedDB object store 'tiles', the TileCacheDB methods and the         *)
(* exported functions cacheTile, getCachedTile, getCacheSize, clearCache.  *)
(*                                                                         *)
(* One step of the model is one IndexedDB request (one transaction) or     *)
(* one network fetch: these are the points where an async function is      *)
(* suspended and another call may run.  Transactions on the one object     *)
(* store are serialised by IndexedDB, so the cursor pass of pruneOldTiles  *)
(* is one step.                                                            *)
(***************************************************************************)
EXTENDS Integers, Sequences, FiniteSets, TLC

\* ------------------------------------------------------------------ bounds
\* a sequential run: one caller
NumUrls == 3
MaxTime == 3
\* overlapping calls
NumTasks == 2
ConcNumUrls == 2
ConcMaxTime == 1

\* an area download: the urls of the list, its length, the clock
DlNumUrls == 2
DlMaxLen == 3
DlMaxTime == 1
SmallNumUrls == 6
SmallMaxTime == 1

\* the App component: the length of the url list of a download
UiMaxLen == 2

\* tile enumeration: the zoom levels of a direct getTileUrls call
TileMaxZoom == 2

\* --------------------------------------------------------------- constants
DB_VERSION == 1
MAX_CACHE_SIZE == 100 * 1024 * 1024

\* MAX_CACHE_SIZE * 0.8 (the double product is exactly 83886080)
PruneTarget == (MAX_CACHE_SIZE * 8) \div 10

\* One tenth of the quota: payload sizes are drawn in this unit.
Tenth == MAX_CACHE_SIZE \div 10

Urls == 1..NumUrls
ConcUrls == 1..ConcNumUrls
Tasks == 1..NumTasks
NoUrl == 0

\* A Blob is identified by a number; its size in bytes is blob.size.
Blobs == {3, 4, 11}
ConcBlobs == {4, 11}
\* overlapping calls with one payload that fills the quota and one small one
RaceBlobs == {1, 10}
SmallUrls == 1..SmallNumUrls
SmallBlobs == {1, 2}
NoBlob == 0
BlobSize(b) == b * Tenth

\* The url lists getTileUrls may return to downloadAreaTiles, and the payloads
\* the tile server may answer with.
DlUrls == 1..DlNumUrls
DlBlobs == {4, 11}
UrlLists == UNION {[1..n -> DlUrls] : n \in 0..DlMaxLen}

\* Targets of a direct pruneOldTiles(targetSize) call.
PruneTargets == {0, 4 * Tenth, PruneTarget}

ExportedOps == {"cacheTile", "getCachedTile", "getCacheSize", "clearCache"}
Ops == ExportedOps \cup {"pruneOldTiles"}

\* The program points at which a TileCacheDB method is about to issue its request.
StorePcs == {"get", "size", "pruneSize", "pruneCursor", "put", "clear"}

VARIABLES
  db,      \* TileCacheDB.db: "null" or "open"
  store,   \* the object store 'tiles': a set of TileData records
  now,     \* Date.now()
  call,    \* call[t]: the call in slot t, see IdleCall
  last,    \* in a sequential run: the cacheTile call that the current call repeats
  dl,      \* the downloadAreaTiles call, see NoDownload
  enum,    \* the getTileUrls call, see NoEnum
  version,   \* the version of the database on disk: 0 while it does not exist
  atRestart, \* the object store as it was when this process started
  ui         \* the state of the App component, see NoUi

vars == <<db, store, now, call, last, dl, enum, version, atRestart, ui>>

\* ---------------------------------------------------------------- values
Pending == [state |-> "pending", type |-> "none", num |-> 0, blob |-> NoBlob]
Void == [state |-> "resolved", type |-> "void", num |-> 0, blob |-> NoBlob]
Null == [state |-> "resolved", type |-> "null", num |-> 0, blob |-> NoBlob]
Number(n) == [state |-> "resolved", type |-> "number", num |-> n, blob |-> NoBlob]
\* URL.createObjectURL(blob): a handle on the payload
ObjectURL(b) == [state |-> "resolved", type |-> "objectURL", num |-> 0, blob |-> b]
Rejected == [state |-> "rejected", type |-> "error", num |-> 0, blob |-> NoBlob]

\* A call: the function, its program point, its arguments and locals, and
\* what it has done so far.
IdleCall ==
  [op |-> "none",          \* the function running
   pc |-> "idle",          \* "idle", a program point, or "done"
   opening |-> FALSE,      \* awaiting its indexedDB.open request
   url |-> NoUrl,          \* the url argument
   blob |-> NoBlob,        \* the fetched payload (cacheTile)
   currentSize |-> 0,      \* the local of cacheTile (line 145) / pruneOldTiles (line 105)
   targetSize |-> 0,       \* the argument of pruneOldTiles
   fetched |-> "none",     \* what fetch(url) did: "none", "ok", "notok", "throw"
   fetches |-> 0,          \* number of fetch(url) calls made
   pruned |-> FALSE,       \* cacheTile called pruneOldTiles (line 147)
   deletedSize |-> 0,      \* the local of pruneOldTiles (line 114) when it resolved
   storageErr |-> FALSE,   \* a storage request of this call failed
   cleared |-> 0,          \* number of records its store.clear() removed
   replaced |-> FALSE,     \* its store.put found a record under the key
   result |-> Pending]     \* how the call's promise settled

\* ------------------------------------------------------- the object store
\* TileData (lines 6-11), as put builds it (lines 55-60)
TileData(u, b, ts) == [url |-> u, blob |-> b, timestamp |-> ts, size |-> BlobSize(b)]

\* [mutant] the lookup goes to the timestamp index instead of the key
LookupByTimestamp(tiles, u) == {e \in tiles : e.timestamp = u}

\* store.get(url): request.result, or none
Lookup(tiles, u) == {e \in tiles : e.url = u}

\* [mutant] the store has no keyPath (key generator): every put adds a record
StoreAdd(tiles, td) == tiles \cup {td}

\* [mutant] store.add semantics: a record already under the key stays
StoreKeepFirst(tiles, td) ==
  IF \E e \in tiles : e.url = td.url THEN tiles ELSE tiles \cup {td}

\* store.put(tileData) with keyPath 'url': the record with the same key is replaced
StorePut(tiles, td) == {e \in tiles : e.url # td.url} \cup {td}

\* [mutant] the cursor is opened on the store (key order), not on the index
KeyBefore(a, b) == a.url <= b.url

\* order of the 'timestamp' index: by index key, then by primary key
IndexBefore(a, b) ==
  \/ a.timestamp < b.timestamp
  \/ a.timestamp = b.timestamp /\ a.url <= b.url

\* the record an index cursor over `tiles` is positioned on first
CursorFirst(tiles) == CHOOSE c \in tiles : \A d \in tiles : IndexBefore(c, d)

\* store.getAll() as an array, in primary-key order
RECURSIVE GetAll(_)
GetAll(tiles) ==
  IF tiles = {} THEN <<>>
  ELSE LET f == CHOOSE c \in tiles : \A d \in tiles : c.url <= d.url
       IN <<f>> \o GetAll(tiles \ {f})

\* tiles.reduce((sum, tile) => sum + tile.size, 0)
RECURSIVE Reduce(_, _)
Reduce(arr, sum) ==
  IF arr = <<>> THEN sum ELSE Reduce(Tail(arr), sum + Head(arr).size)

\* [mutant] reduce called without its initial value: the first record is
\* taken as the accumulator and its size is never added
CacheSizeNoInitialValue(tiles) ==
  IF tiles = {} THEN 0 ELSE Reduce(Tail(GetAll(tiles)), 0)

\* TileCacheDB.getCacheSize: the value its promise resolves to
CacheSizeOf(tiles) == Reduce(GetAll(tiles), 0)

\* [mutant] the handler tests deletedSize <= sizeToDelete: it deletes one
\* record more when the bytes freed are exactly those asked for
RECURSIVE CursorPassInclusive(_, _, _)
CursorPassInclusive(tiles, deletedSize, sizeToDelete) ==
  IF tiles # {} /\ deletedSize <= sizeToDelete
  THEN LET tile == CursorFirst(tiles)
       IN CursorPassInclusive(tiles \ {tile}, deletedSize + tile.size, sizeToDelete)
  ELSE [tiles |-> tiles, deletedSize |-> deletedSize]

\* [mutant] the handler never calls cursor.continue(): one record is deleted
CursorPassNoContinue(tiles, deletedSize, sizeToDelete) ==
  IF tiles # {} /\ deletedSize < sizeToDelete
  THEN LET tile == CursorFirst(tiles)
       IN [tiles |-> tiles \ {tile}, deletedSize |-> deletedSize + tile.size]
  ELSE [tiles |-> tiles, deletedSize |-> deletedSize]

\* The onsuccess handler of the cursor request of pruneOldTiles (lines
\* 117-127), run until it resolves: the records left under the cursor, which
\* are the records left in the store, and deletedSize.
RECURSIVE CursorPass(_, _, _)
CursorPass(tiles, deletedSize, sizeToDelete) ==
  IF tiles # {} /\ deletedSize < sizeToDelete
  THEN LET tile == CursorFirst(tiles)
       IN CursorPass(tiles \ {tile}, deletedSize + tile.size, sizeToDelete)
  ELSE [tiles |-> tiles, deletedSize |-> deletedSize]

\* [mutant] the test leaves the incoming payload out
NeedsPruneIgnoresPayload(cur, b) == cur > MAX_CACHE_SIZE

\* [mutant] pruneOldTiles is called as soon as the target would be reached
NeedsPruneAtTarget(cur, b) == cur + BlobSize(b) >= PruneTarget

\* cacheTile lines 146-148: is pruneOldTiles called?
NeedsPrune(cur, b) == cur + BlobSize(b) > MAX_CACHE_SIZE

\* pruneOldTiles lines 105-106: the early return
PruneNotNeeded(cur, tg) == cur <= tg

\* ----------------------------------------------------------- the boundary
\* [mutant] no try/catch: the rejection reaches the caller
NoCatch(o) == Rejected

\* try { ... } catch (error) { console.warn(...) [return default] } of the
\* exported functions; pruneOldTiles is a bare method and rejects.
CatchDefault(o) ==
  CASE o = "cacheTile" -> Void
    [] o = "getCachedTile" -> Null
    [] o = "getCacheSize" -> Number(0)
    [] o = "clearCache" -> Void
    [] OTHER -> Rejected

\* The call ends: its promise settles with r.
Settled(c, r) ==
  [c EXCEPT !.pc = "done", !.result = r, !.currentSize = 0, !.targetSize = 0]

\* [mutant] the catch block rethrows
ThrownRethrows(c) == Settled(c, Rejected)

\* A rejection inside the call reaches the function's catch, if it has one.
Thrown(c) == Settled(c, CatchDefault(c.op))

\* [mutant] cacheTile gives up when the payload still does not fit after the prune
PruneReturnedRefuses(c) ==
  IF c.op = "cacheTile"
     /\ c.currentSize - c.deletedSize + BlobSize(c.blob) <= MAX_CACHE_SIZE
  THEN [c EXCEPT !.pc = "put"]
  ELSE Settled(c, Void)

\* pruneOldTiles returns: cacheTile goes on to put, a direct call resolves.
PruneReturned(c) ==
  IF c.op = "cacheTile" THEN [c EXCEPT !.pc = "put"] ELSE Settled(c, Void)

\* What a sequential run notes when a call starts, of the call that has just
\* settled: for a cacheTile that met no failure, its url and the payload then
\* stored under it.  It is kept while a cacheTile of the same url runs.
NoLast == [url |-> NoUrl, blob |-> NoBlob]

Remember(c, tiles) ==
  IF c.op = "cacheTile" /\ c.pc = "done" /\ ~c.storageErr
     /\ c.fetched \in {"none", "ok"}
  THEN LET hit == Lookup(tiles, c.url)
       IN [url |-> c.url,
           blob |-> IF hit = {} THEN NoBlob ELSE (CHOOSE e \in hit : TRUE).blob]
  ELSE NoLast

\* request.onupgradeneeded (lines 26-32), which runs when the database on
\* disk is older than DB_VERSION: the object store is created unless the
\* database has one (it has one from version 1 on).
OnUpgradeNeeded(tiles, oldVersion) == IF oldVersion = 0 THEN {} ELSE tiles

\* ------------------------------------------------------ tile enumeration
\* Longitudes are counted in 1/128 degree.  With lng a multiple of 1/128
\* degree, ((lng + 180) / 360) * n is either an integer, and then the double
\* computation is exact, or at least 1/46080 away from one, far beyond its
\* rounding error: Math.floor of it is the integer division below.
LngUnit == 128
Deg(d) == d * LngUnit

\* const lngToTileX = (lng) => Math.floor(((lng + 180) / 360) * n), n = 2^z
LngToTileX(lng, z) == ((lng + Deg(180)) * 2^z) \div Deg(360)

\* A latitude is a whole number of degrees, or the double nearest to the
\* upper edge of tile row y at zoom z (an irrational number of degrees).
LatDeg(d) == [kind |-> "deg", deg |-> d, z |-> 0, y |-> 0]
LatEdge(z, y) == [kind |-> "edge", deg |-> 0, z |-> z, y |-> y]

\* (1 - Math.log(Math.tan(latRad) + 1 / Math.cos(latRad)) / Math.PI) / 2 of
\* a whole number of degrees, times 2^MercatorBits, rounded down (computed
\* in double arithmetic; none of these values is within 0.03 of a multiple of
\* 2^-15, so every zoom level up to 15 rounds the same way).
MercatorBits == 20
MercatorTable(deg) ==
  CASE deg = 89 -> 0 - 266977
    [] deg = 85 -> 1717
    [] deg = 66 -> 265857
    [] deg = 45 -> 377199
    [] deg = 10 -> 495011
    [] deg = 0 -> 524288
    [] deg = 0 - 10 -> 553564
    [] deg = 0 - 45 -> 671376
    [] deg = 0 - 66 -> 782718
    [] deg = 0 - 85 -> 1046858
    [] deg = 0 - 89 -> 1315552

\* const latToTileY = (lat) => Math.floor(... * n).  On a tile edge the
\* product is a whole number up to rounding, and the double may fall just
\* below it (r = 1) or not (r = 0); latitude 0 gives n / 2 exactly.
LatToTileY(lat, z, r) ==
  IF lat.kind = "deg"
  THEN MercatorTable(lat.deg) \div 2^(MercatorBits - z)
  ELSE IF (lat.y * 2^z) % 2^lat.z = 0
       THEN (lat.y * 2^z) \div 2^lat.z - r
       ELSE (lat.y * 2^z) \div 2^lat.z

Max(a, b) == IF a >= b THEN a ELSE b
Min(a, b) == IF a <= b THEN a ELSE b

\* [mutant] the indices are not clamped to the tile grid
RangesUnclamped(bounds, z, rn, rs) ==
  [z |-> z,
   xMin |-> LngToTileX(bounds.west, z),
   xMax |-> LngToTileX(bounds.east, z),
   yMin |-> LatToTileY(bounds.north, z, rn),
   yMax |-> LatToTileY(bounds.south, z, rs)]

\* xMin, xMax, yMin, yMax of zoom level z (lines 203-206)
Ranges(bounds, z, rn, rs) ==
  [z |-> z,
   xMin |-> Max(0, LngToTileX(bounds.west, z)),
   xMax |-> Min(2^z - 1, LngToTileX(bounds.east, z)),
   yMin |-> Max(0, LatToTileY(bounds.north, z, rn)),
   yMax |-> Min(2^z - 1, LatToTileY(bounds.south, z, rs))]

\* A template is a sequence of pieces, each a placeholder or literal text.
\* String.prototype.replace with a string pattern replaces the first
\* occurrence only.
RECURSIVE Replace(_, _, _)
Replace(pieces, placeholder, text) ==
  IF pieces = <<>> THEN <<>>
  ELSE IF Head(pieces) = placeholder THEN <<text>> \o Tail(pieces)
  ELSE <<Head(pieces)>> \o Replace(Tail(pieces), placeholder, text)

RECURSIVE Join(_)
Join(pieces) == IF pieces = <<>> THEN "" ELSE Head(pieces) \o Join(Tail(pieces))

\* tileServerUrl.replace('{z}', z.toString()).replace('{x}', ...).replace('{y}', ...)
Url(template, z, x, y) ==
  Join(Replace(Replace(Replace(template, "{z}", ToString(z)),
                       "{x}", ToString(x)),
               "{y}", ToString(y)))

\* [mutant] the inner loop stops one short: for (y = yMin; y < yMax; y++)
RECURSIVE YLoopExclusive(_, _, _, _)
YLoopExclusive(z, x, y, yMax) ==
  IF y < yMax
  THEN <<[z |-> z, x |-> x, y |-> y]>> \o YLoopExclusive(z, x, y + 1, yMax)
  ELSE <<>>

\* for (let y = yMin; y <= yMax; y++): the tiles of column x
RECURSIVE YLoop(_, _, _, _)
YLoop(z, x, y, yMax) ==
  IF y <= yMax
  THEN <<[z |-> z, x |-> x, y |-> y]>> \o YLoop(z, x, y + 1, yMax)
  ELSE <<>>

\* [mutant] the loops are nested the other way round: rows outside
RECURSIVE XLoopRowMajor(_, _, _, _, _)
XLoopRowMajor(z, x, xMax, yMin, yMax) ==
  IF yMin <= yMax
  THEN [i \in 1..Max(0, xMax - x + 1) |-> [z |-> z, x |-> x + i - 1, y |-> yMin]]
       \o XLoopRowMajor(z, x, xMax, yMin + 1, yMax)
  ELSE <<>>

\* [mutant] a box whose west column lies east of its east column wraps round
\* the antimeridian: columns x .. 2^z - 1, then 0 .. xMax
XLoopWraps(z, x, xMax, yMin, yMax) ==
  LET rows == Max(0, yMax - yMin + 1)
      Columns(a, b) ==
        [i \in 1..((b - a + 1) * rows) |->
           [z |-> z, x |-> a + ((i - 1) \div rows), y |-> yMin + ((i - 1) % rows)]]
  IN IF x <= xMax
     THEN Columns(x, xMax)
     ELSE Columns(x, 2^z - 1) \o Columns(0, xMax)

\* for (let x = xMin; x <= xMax; x++): the tiles of zoom level z
RECURSIVE XLoop(_, _, _, _, _)
XLoop(z, x, xMax, yMin, yMax) ==
  IF x <= xMax
  THEN YLoop(z, x, yMin, yMax) \o XLoop(z, x + 1, xMax, yMin, yMax)
  ELSE <<>>

\* currentZoom is counted in quarters of a zoom level: Math.floor(currentZoom)
\* is the division by ZoomUnit.
ZoomUnit == 4

\* [mutant] the window is floor(currentZoom) - 1 .. floor(currentZoom) + 2
\* without its limits 0 and 15
ZoomWindowUnlimited(currentZoom) ==
  [minZoom |-> currentZoom \div ZoomUnit - 1,
   maxZoom |-> currentZoom \div ZoomUnit + 2]

\* [mutant] the upper limit of the window is level 16
ZoomWindowTo16(currentZoom) ==
  [minZoom |-> Max(0, currentZoom \div ZoomUnit - 1),
   maxZoom |-> Min(16, currentZoom \div ZoomUnit + 2)]

\* downloadAreaTiles lines 224-225
ZoomWindow(currentZoom) ==
  [minZoom |-> Max(0, currentZoom \div ZoomUnit - 1),
   maxZoom |-> Min(15, currentZoom \div ZoomUnit + 2)]

\* The getTileUrls call: its arguments, the loop variable z and the array
\* urls, with the tiles and the index ranges the urls came from.
NoEnum ==
  [pc |-> "idle",            \* "idle", "loop" or "returned"
   via |-> "none",           \* called directly or by "downloadAreaTiles"
   currentZoom |-> 0,        \* the argument of downloadAreaTiles
   bounds |-> [west |-> 0, east |-> 0, north |-> LatDeg(0), south |-> LatDeg(0)],
   minZoom |-> 0,
   maxZoom |-> 0,
   template |-> <<>>,
   z |-> 0,                  \* for (let z = minZoom; ...)
   urls |-> <<>>,            \* const urls: string[]
   tiles |-> <<>>,           \* the (z, x, y) substituted, in order
   ranges |-> <<>>]          \* xMin, xMax, yMin, yMax of each level visited

\* ------------------------------------------------------ the area download
\* The downloadAreaTiles call: its locals urls and completed, whether the
\* caller passed onProgress, and what it has done so far.
NoDownload ==
  [state |-> "idle",       \* "idle", "running", "resolved" or "rejected"
   urls |-> <<>>,          \* const urls = getTileUrls(...)
   onProgress |-> FALSE,   \* the optional callback was passed
   completed |-> 0,        \* let completed = 0 ... completed++
   reported |-> <<>>,      \* the values onProgress was called with, in order
   attempted |-> <<>>,     \* the urls cacheTile was called with, in order
   fromEmpty |-> FALSE,    \* the store was empty when the call started
   okSize |-> 0,           \* bytes of the payloads whose fetch succeeded
   failed |-> 0,           \* urls whose fetch threw or answered non-ok
   hits |-> 0,             \* urls found in the store (no fetch)
   storageErrs |-> 0]      \* urls whose cacheTile met a storage failure

\* The state of the App component that the offline controls show and use.
NoUi ==
  [cacheProgress |-> "null",  \* useState<number | null>(null): "null" or "number"
   cacheSize |-> 0,           \* useState(0): the last size updateCacheSize has set
   bounds |-> FALSE,          \* viewState.bounds is set
   download |-> "idle",       \* handleDownloadArea: "idle" or "awaiting"
   status |-> ""]             \* statusMessage, as set by the two handlers

\* [mutant] onProgress is called before completed++
ProgressBeforeIncrement(completed, total) ==
  [num |-> (completed - 1) * 100, den |-> total]

\* (completed / urls.length) * 100, kept as the exact fraction num/den: the
\* two roundings of the double computation keep the order of these values
\* and give exactly 100 when completed = urls.length.
Progress(completed, total) == [num |-> completed * 100, den |-> total]

\* [mutant] the list is walked from its end
UrlAtFromEnd(urls, i) == urls[Len(urls) + 1 - i]

\* for (const url of urls): the url of the i-th iteration
UrlAt(urls, i) == urls[i]

\* The body of the loop after await cacheTile(url) has resolved with call c:
\* completed++ and onProgress, with the tallies of what c did.
Completed(d, c) ==
  [d EXCEPT
     !.completed = @ + 1,
     !.reported = IF d.onProgress
                  THEN Append(@, Progress(d.completed + 1, Len(d.urls)))
                  ELSE @,
     !.okSize = IF c.fetched = "ok" THEN @ + BlobSize(c.blob) ELSE @,
     !.failed = IF c.fetched \in {"throw", "notok"} THEN @ + 1 ELSE @,
     !.hits = IF c.fetches = 0 /\ ~c.storageErr THEN @ + 1 ELSE @,
     !.storageErrs = IF c.storageErr THEN @ + 1 ELSE @]

\* ------------------------------------------------------------------ Init
Init ==
  /\ db = "null"
  /\ store = {}
  /\ now = 0
  /\ call = [t \in Tasks |-> IdleCall]
  /\ last = NoLast
  /\ dl = NoDownload
  /\ enum = NoEnum
  /\ version = 0
  /\ atRestart = {}
  /\ ui = NoUi

\* ---------------------------------------------------------------- actions
FirstPc(o) ==
  CASE o = "cacheTile" -> "get"
    [] o = "getCachedTile" -> "get"
    [] o = "getCacheSize" -> "size"
    [] o = "clearCache" -> "clear"
    [] o = "pruneOldTiles" -> "pruneSize"

Running(t) == call[t].pc \notin {"idle", "done"}

\* A caller invokes function o; the call runs up to its first await.  A
\* sequential caller (seq) notes the call that has just settled.
Invoke(t, o, u, tg, seq) ==
  /\ ~Running(t)
  /\ call' = [call EXCEPT ![t] =
                [IdleCall EXCEPT !.op = o, !.pc = FirstPc(o), !.url = u,
                                 !.targetSize = tg]]
  /\ last' = IF seq /\ o = "cacheTile" /\ Remember(call[t], store).url = u
             THEN Remember(call[t], store)
             ELSE NoLast
  /\ UNCHANGED <<db, store, now, dl, enum, version, atRestart, ui>>

Call(t, urls, seq) ==
  \/ \E u \in urls : Invoke(t, "cacheTile", u, 0, seq)
  \/ \E u \in urls : Invoke(t, "getCachedTile", u, 0, seq)
  \/ Invoke(t, "getCacheSize", NoUrl, 0, seq)
  \/ Invoke(t, "clearCache", NoUrl, 0, seq)
  \/ \E tg \in PruneTargets : Invoke(t, "pruneOldTiles", NoUrl, tg, seq)

\* [mutant] every store method opens the database, handle or no handle
InitOpenAlways(t) ==
  /\ call[t].pc \in StorePcs
  /\ ~call[t].opening
  /\ call' = [call EXCEPT ![t].opening = TRUE]
  /\ UNCHANGED <<db, store, now, last, dl, enum, version, atRestart, ui>>

\* if (!this.db) await this.init(): the open request is issued
InitOpen(t) ==
  /\ call[t].pc \in StorePcs
  /\ db = "null"
  /\ ~call[t].opening
  /\ call' = [call EXCEPT ![t].opening = TRUE]
  /\ UNCHANGED <<db, store, now, last, dl, enum, version, atRestart, ui>>

\* [mutant] init deletes the object store and creates it again on every open
InitSuccessRecreates(t) ==
  /\ call[t].opening
  /\ db' = "open"
  /\ version' = DB_VERSION
  /\ store' = {}
  /\ call' = [call EXCEPT ![t].opening = FALSE]
  /\ UNCHANGED <<now, last, dl, enum, atRestart, ui>>

\* request.onsuccess of init: this.db = request.result
InitSuccess(t) ==
  /\ call[t].opening
  /\ db' = "open"
  /\ version' = DB_VERSION
  /\ store' = IF version < DB_VERSION THEN OnUpgradeNeeded(store, version) ELSE store
  /\ call' = [call EXCEPT ![t].opening = FALSE]
  /\ UNCHANGED <<now, last, dl, enum, atRestart, ui>>

\* [mutant] the handle is assigned when the request is made, not on success:
\* a failed open leaves it set
InitErrorSetsHandle(t) ==
  /\ call[t].opening
  /\ db' = "open"
  /\ call' = [call EXCEPT ![t] =
                Thrown([@ EXCEPT !.opening = FALSE, !.storageErr = TRUE])]
  /\ UNCHANGED <<store, now, last, dl, enum, version, atRestart, ui>>

\* request.onerror of init: reject(request.error)
InitError(t) ==
  /\ call[t].opening
  /\ call' = [call EXCEPT ![t] =
                Thrown([@ EXCEPT !.opening = FALSE, !.storageErr = TRUE])]
  /\ UNCHANGED <<db, store, now, last, dl, enum, version, atRestart, ui>>

\* The handle is there and the method issues its request.
Ready(t, p) == call[t].pc = p /\ db = "open" /\ ~call[t].opening

\* request.onerror of get / put / getAll / clear / openCursor
RequestError(t) ==
  /\ call[t].pc \in StorePcs
  /\ db = "open"
  /\ ~call[t].opening
  /\ call' = [call EXCEPT ![t] = Thrown([@ EXCEPT !.storageErr = TRUE])]
  /\ UNCHANGED <<db, store, now, last, dl, enum, version, atRestart, ui>>

\* [mutant] a hit refreshes the record's timestamp (recency update on read)
GetTouches(t) ==
  /\ Ready(t, "get")
  /\ LET hit == Lookup(store, call[t].url)
     IN /\ call' = [call EXCEPT ![t] =
             IF @.op = "cacheTile"
             THEN IF hit # {} THEN Settled(@, Void) ELSE [@ EXCEPT !.pc = "fetch"]
             ELSE IF hit # {}
                  THEN Settled(@, ObjectURL((CHOOSE e \in hit : TRUE).blob))
                  ELSE Settled(@, Null)]
        /\ store' = {IF e \in hit THEN [e EXCEPT !.timestamp = now] ELSE e : e \in store}
  /\ UNCHANGED <<db, now, last, dl, enum, version, atRestart, ui>>

\* [mutant] cacheTile does not return on a hit: it fetches the tile again
GetIgnoresHit(t) ==
  /\ Ready(t, "get")
  /\ LET hit == Lookup(store, call[t].url)
     IN call' = [call EXCEPT ![t] =
          IF @.op = "cacheTile"
          THEN [@ EXCEPT !.pc = "fetch"]
          ELSE IF hit # {}
               THEN Settled(@, ObjectURL((CHOOSE e \in hit : TRUE).blob))
               ELSE Settled(@, Null)]
  /\ UNCHANGED <<db, store, now, last, dl, enum, version, atRestart, ui>>

\* TileCacheDB.get resolves; cacheTile returns on a hit, getCachedTile
\* returns the object URL or null.
Get(t) ==
  /\ Ready(t, "get")
  /\ LET hit == Lookup(store, call[t].url)
     IN call' = [call EXCEPT ![t] =
          IF @.op = "cacheTile"
          THEN IF hit # {} THEN Settled(@, Void) ELSE [@ EXCEPT !.pc = "fetch"]
          ELSE IF hit # {}
               THEN Settled(@, ObjectURL((CHOOSE e \in hit : TRUE).blob))
               ELSE Settled(@, Null)]
  /\ UNCHANGED <<db, store, now, last, dl, enum, version, atRestart, ui>>

\* [mutant] the response is not tested for ok: its body is cached
FetchIgnoresOk(t, blobs) ==
  /\ call[t].pc = "fetch"
  /\ \/ call' = [call EXCEPT ![t] =
                   Thrown([@ EXCEPT !.fetches = @ + 1, !.fetched = "throw"])]
     \/ \E b \in blobs :
          call' = [call EXCEPT ![t] =
                     [@ EXCEPT !.fetches = @ + 1, !.fetched = "notok", !.blob = b,
                               !.pc = "size"]]
     \/ \E b \in blobs :
          call' = [call EXCEPT ![t] =
                     [@ EXCEPT !.fetches = @ + 1, !.fetched = "ok", !.blob = b,
                               !.pc = "size"]]
  /\ UNCHANGED <<db, store, now, last, dl, enum, version, atRestart, ui>>

\* await fetch(url); if (!response.ok) return; await response.blob()
Fetch(t, blobs) ==
  /\ call[t].pc = "fetch"
  /\ \/ call' = [call EXCEPT ![t] =
                   Thrown([@ EXCEPT !.fetches = @ + 1, !.fetched = "throw"])]
     \/ call' = [call EXCEPT ![t] =
                   Settled([@ EXCEPT !.fetches = @ + 1, !.fetched = "notok"], Void)]
     \/ \E b \in blobs :
          call' = [call EXCEPT ![t] =
                     [@ EXCEPT !.fetches = @ + 1, !.fetched = "ok", !.blob = b,
                               !.pc = "size"]]
  /\ UNCHANGED <<db, store, now, last, dl, enum, version, atRestart, ui>>

\* TileCacheDB.getCacheSize resolves, for the exported getCacheSize or for
\* cacheTile (lines 145-148).
Size(t) ==
  /\ Ready(t, "size")
  /\ LET total == CacheSizeOf(store)
     IN call' = [call EXCEPT ![t] =
          IF @.op = "getCacheSize"
          THEN Settled(@, Number(total))
          ELSE IF NeedsPrune(total, @.blob)
               THEN [@ EXCEPT !.currentSize = total, !.pc = "pruneSize",
                              !.targetSize = PruneTarget, !.pruned = TRUE]
               ELSE [@ EXCEPT !.currentSize = total, !.pc = "put"]]
  /\ UNCHANGED <<db, store, now, last, dl, enum, version, atRestart, ui>>

\* pruneOldTiles lines 103-106
PruneSize(t) ==
  /\ Ready(t, "pruneSize")
  /\ LET total == CacheSizeOf(store)
     IN call' = [call EXCEPT ![t] =
          IF PruneNotNeeded(total, @.targetSize)
          THEN PruneReturned([@ EXCEPT !.currentSize = total])
          ELSE [@ EXCEPT !.currentSize = total, !.pc = "pruneCursor"]]
  /\ UNCHANGED <<db, store, now, last, dl, enum, version, atRestart, ui>>

\* pruneOldTiles lines 108-127: the cursor transaction
PruneCursor(t) ==
  /\ Ready(t, "pruneCursor")
  /\ LET pass == CursorPass(store, 0, call[t].currentSize - call[t].targetSize)
     IN /\ store' = pass.tiles
        /\ call' = [call EXCEPT ![t] =
                      PruneReturned([@ EXCEPT !.deletedSize = pass.deletedSize])]
  /\ UNCHANGED <<db, now, last, dl, enum, version, atRestart, ui>>

\* TileCacheDB.put, and cacheTile returns
Put(t) ==
  /\ Ready(t, "put")
  /\ store' = StorePut(store, TileData(call[t].url, call[t].blob, now))
  /\ call' = [call EXCEPT ![t] =
                Settled([@ EXCEPT !.replaced = Lookup(store, call[t].url) # {}], Void)]
  /\ UNCHANGED <<db, now, last, dl, enum, version, atRestart, ui>>

\* [mutant] the request is store.delete(key) of the first key, not store.clear()
ClearFirstKey(t) ==
  /\ Ready(t, "clear")
  /\ store' = IF store = {} THEN {} ELSE store \ {Head(GetAll(store))}
  /\ call' = [call EXCEPT ![t] =
                Settled([@ EXCEPT !.cleared = Cardinality(store \ store')], Void)]
  /\ UNCHANGED <<db, now, last, dl, enum, version, atRestart, ui>>

\* TileCacheDB.clear, and clearCache returns
Clear(t) ==
  /\ Ready(t, "clear")
  /\ store' = {}
  /\ call' = [call EXCEPT ![t] =
                Settled([@ EXCEPT !.cleared = Cardinality(store)], Void)]
  /\ UNCHANGED <<db, now, last, dl, enum, version, atRestart, ui>>

\* Time passes.
Tick(maxTime) ==
  /\ now < maxTime
  /\ now' = now + 1
  /\ UNCHANGED <<db, store, call, last, dl, enum, version, atRestart, ui>>

Step(t, blobs) ==
  \/ InitOpen(t)
  \/ InitSuccess(t)
  \/ InitError(t)
  \/ RequestError(t)
  \/ Get(t)
  \/ Fetch(t, blobs)
  \/ Size(t)
  \/ PruneSize(t)
  \/ PruneCursor(t)
  \/ Put(t)
  \/ Clear(t)

\* cacheTile(url) called by the loop of downloadAreaTiles, up to its first await
CacheTileCall(u) ==
  [IdleCall EXCEPT !.op = "cacheTile", !.pc = FirstPc("cacheTile"), !.url = u]

\* downloadAreaTiles is called: getTileUrls has returned urls; the loop calls
\* cacheTile on the first url, or the call resolves at once on an empty list.
\* What the caller does to its own state in the same step is the caller's.
DownloadStart(urls, cb) ==
  /\ dl.state # "running"
  /\ ~Running(1)
  /\ IF urls = <<>>
     THEN /\ dl' = [NoDownload EXCEPT !.state = "resolved", !.onProgress = cb,
                                      !.fromEmpty = (store = {})]
          /\ UNCHANGED call
     ELSE /\ dl' = [NoDownload EXCEPT !.state = "running", !.urls = urls,
                                      !.onProgress = cb,
                                      !.fromEmpty = (store = {}),
                                      !.attempted = <<UrlAt(urls, 1)>>]
          /\ call' = [call EXCEPT ![1] = CacheTileCall(UrlAt(urls, 1))]
  /\ UNCHANGED <<db, store, now, last, enum, version, atRestart>>

\* [mutant] the loop is left when a tile could not be fetched
DownloadNextStopsOnFailure ==
  /\ dl.state = "running"
  /\ call[1].pc = "done"
  /\ IF call[1].result.state = "rejected"
     THEN dl' = [dl EXCEPT !.state = "rejected"] /\ UNCHANGED call
     ELSE LET d == Completed(dl, call[1])
          IN IF d.completed < Len(d.urls) /\ call[1].fetched \notin {"throw", "notok"}
             THEN /\ dl' = [d EXCEPT !.attempted =
                                      Append(@, UrlAt(d.urls, d.completed + 1))]
                  /\ call' = [call EXCEPT ![1] =
                                CacheTileCall(UrlAt(d.urls, d.completed + 1))]
             ELSE dl' = [d EXCEPT !.state = "resolved"] /\ UNCHANGED call
  /\ UNCHANGED <<db, store, now, last, enum, version, atRestart, ui>>

\* await cacheTile(url) has settled: a rejection would leave the loop and
\* reject the call; otherwise completed++, onProgress, and the next iteration
\* calls cacheTile, or the loop is over and the call resolves.
DownloadNext ==
  /\ dl.state = "running"
  /\ call[1].pc = "done"
  /\ IF call[1].result.state = "rejected"
     THEN dl' = [dl EXCEPT !.state = "rejected"] /\ UNCHANGED call
     ELSE LET d == Completed(dl, call[1])
          IN IF d.completed < Len(d.urls)
             THEN /\ dl' = [d EXCEPT !.attempted =
                                      Append(@, UrlAt(d.urls, d.completed + 1))]
                  /\ call' = [call EXCEPT ![1] =
                                CacheTileCall(UrlAt(d.urls, d.completed + 1))]
             ELSE dl' = [d EXCEPT !.state = "resolved"] /\ UNCHANGED call
  /\ UNCHANGED <<db, store, now, last, enum, version, atRestart, ui>>

\* clearCache called while no download runs
ClearCacheCall ==
  /\ dl.state # "running"
  /\ Invoke(1, "clearCache", NoUrl, 0, FALSE)

\* The process ends (the page is closed or reloaded) and a new one starts: the
\* module is evaluated again, so tileCacheDB is a new TileCacheDB with
\* db = null, and every call in flight is gone.  The database on disk stays.
\* A transaction is atomic, so the store is in the state some step left it in.
Restart ==
  /\ db' = "null"
  /\ call' = [t \in Tasks |-> IdleCall]
  /\ last' = NoLast
  /\ atRestart' = store
  /\ UNCHANGED <<store, now, dl, enum, version, ui>>

\* Calls may overlap: a call may start while others are suspended.
Next ==
  \/ \E t \in Tasks : Call(t, ConcUrls, FALSE)
  \/ \E t \in Tasks : Step(t, ConcBlobs)
  \/ Tick(ConcMaxTime)

Spec == Init /\ [][Next]_vars

\* Overlapping calls on a store that small payloads take over the quota.
RaceNext ==
  \/ \E t \in Tasks : Call(t, ConcUrls, FALSE)
  \/ \E t \in Tasks : Step(t, RaceBlobs)
  \/ Tick(ConcMaxTime)

RaceSpec == Init /\ [][RaceNext]_vars

\* A sequential run: one caller, which starts a call when the last has settled.
SeqNext ==
  \/ Call(1, Urls, TRUE)
  \/ Step(1, Blobs)
  \/ Tick(MaxTime)

SeqSpec == Init /\ [][SeqNext]_vars

\* A sequential run of cacheTile, prune and clear calls on a tile server
\* whose payloads are small: none is above a fifth of the quota.
SmallCall ==
  \/ \E u \in SmallUrls : Invoke(1, "cacheTile", u, 0, FALSE)
  \/ Invoke(1, "clearCache", NoUrl, 0, FALSE)
  \/ \E tg \in PruneTargets : Invoke(1, "pruneOldTiles", NoUrl, tg, FALSE)

SmallNext ==
  \/ SmallCall
  \/ Step(1, SmallBlobs)
  \/ Tick(SmallMaxTime)

SmallSpec == Init /\ [][SmallNext]_vars

\* Sequential runs of one process after another on the same database.
RestartNext ==
  \/ Call(1, ConcUrls, TRUE)
  \/ Step(1, ConcBlobs)
  \/ Tick(ConcMaxTime)
  \/ Restart

RestartSpec == Init /\ [][RestartNext]_vars

\* Area downloads, one at a time, each on a list of urls, with clearCache
\* between them.
DlNext ==
  \/ \E urls \in UrlLists, cb \in BOOLEAN :
       DownloadStart(urls, cb) /\ UNCHANGED ui
  \/ DownloadNext
  \/ ClearCacheCall
  \/ Step(1, DlBlobs)
  \/ Tick(DlMaxTime)

DlSpec == Init /\ [][DlNext]_vars

\* The same, where a storage request or fetch that is pending is answered and
\* a settled promise resumes its awaiter (the event loop runs the callbacks).
DlFairSpec == DlSpec /\ WF_vars(DownloadNext \/ Step(1, DlBlobs))

\* ------------------------------------------------ the offline controls
\* The App component and its OfflineControls.  Three calls can be in flight:
\* slot 1 is the cacheTile of the running download, slot 2 the clearCache of
\* handleClearCache, slot 3 the getCacheSize of updateCacheSize.
UiTasks == {1, 2, 3}
UiUrlLists == UNION {[1..n -> DlUrls] : n \in 0..UiMaxLen}
UiBlobs == {11}

UiInit ==
  /\ db = "null"
  /\ store = {}
  /\ now = 0
  /\ call = [t \in UiTasks |-> IdleCall]
  /\ last = NoLast
  /\ dl = NoDownload
  /\ enum = NoEnum
  /\ version = 0
  /\ atRestart = {}
  /\ ui = NoUi

\* handleViewStateChange: the map reports its view, with or without bounds
ViewStateChange ==
  /\ \E b \in BOOLEAN : ui' = [ui EXCEPT !.bounds = b]
  /\ UNCHANGED <<db, store, now, call, last, dl, enum, version, atRestart>>

\* OfflineControls: disabled={cacheProgress !== null} on both buttons
ButtonsEnabled == ui.cacheProgress = "null"

\* [mutant] the handler leaves cacheProgress as it is when the download is over
AfterDownloadKeepsProgress(u, state) ==
  [u EXCEPT !.download = "idle",
            !.status = IF state = "resolved" THEN "Area downloaded successfully"
                       ELSE "Download failed"]

\* handleDownloadArea lines 834-840: after the await, on both paths
AfterDownload(u, state) ==
  [u EXCEPT !.cacheProgress = "null",
            !.download = "idle",
            !.status = IF state = "resolved" THEN "Area downloaded successfully"
                       ELSE "Download failed"]

\* A click on Download Area: handleDownloadArea up to its await.  Without
\* bounds it returns; with them cacheProgress is set to 0 and
\* downloadAreaTiles is called, which runs up to its first await.
ClickDownloadArea ==
  /\ ButtonsEnabled
  /\ IF ~ui.bounds
     THEN /\ ui' = [ui EXCEPT !.status = "Map bounds not available"]
          /\ UNCHANGED <<db, store, now, call, last, dl, enum, version, atRestart>>
     ELSE /\ ui' = [ui EXCEPT !.cacheProgress = "number", !.download = "awaiting",
                              !.status = "Downloading tiles..."]
          /\ \E urls \in UiUrlLists : DownloadStart(urls, TRUE)

\* updateCacheSize is called: getCacheSize up to its first await.  The size
\* is only displayed: when an updateCacheSize is in flight already, that one
\* is left to report.
UpdateCacheSizeCall(c) ==
  IF c[3].pc = "idle"
  THEN [c EXCEPT ![3] = [IdleCall EXCEPT !.op = "getCacheSize",
                                         !.pc = FirstPc("getCacheSize")]]
  ELSE c

\* downloadAreaTiles has settled: handleDownloadArea resumes, sets
\* cacheProgress to null and, if the call resolved, calls updateCacheSize.
DownloadSettled ==
  /\ ui.download = "awaiting"
  /\ dl.state \in {"resolved", "rejected"}
  /\ ui' = AfterDownload(ui, dl.state)
  /\ call' = IF dl.state = "resolved" THEN UpdateCacheSizeCall(call) ELSE call
  /\ UNCHANGED <<db, store, now, last, dl, enum, version, atRestart>>

\* A click on Clear Cache, which is rendered when cacheSize > 0, confirmed in
\* the dialog: handleClearCache calls clearCache.  (A cancelled dialog does
\* nothing.)
ClickClearCache ==
  /\ ui.cacheSize > 0
  /\ ButtonsEnabled
  /\ call[2].pc = "idle"
  /\ Invoke(2, "clearCache", NoUrl, 0, FALSE)

\* clearCache has settled: handleClearCache resumes and calls updateCacheSize.
ClearSettled ==
  /\ call[2].pc = "done"
  /\ ui' = [ui EXCEPT !.status = IF call[2].result.state = "rejected"
                                 THEN "Failed to clear cache" ELSE "Cache cleared"]
  /\ call' = IF call[2].result.state = "rejected"
             THEN [call EXCEPT ![2] = IdleCall]
             ELSE UpdateCacheSizeCall([call EXCEPT ![2] = IdleCall])
  /\ UNCHANGED <<db, store, now, last, dl, enum, version, atRestart>>

\* The interval timer of the effect (every 5 s, and on mount) calls
\* updateCacheSize.
TimerUpdateCacheSize ==
  /\ call[3].pc = "idle"
  /\ call' = UpdateCacheSizeCall(call)
  /\ UNCHANGED <<db, store, now, last, dl, enum, version, atRestart, ui>>

\* updateCacheSize resumes: setCacheSize(size)
SetCacheSize ==
  /\ call[3].pc = "done"
  /\ ui' = [ui EXCEPT !.cacheSize = call[3].result.num]
  /\ call' = [call EXCEPT ![3] = IdleCall]
  /\ UNCHANGED <<db, store, now, last, dl, enum, version, atRestart>>

UiNext ==
  \/ ViewStateChange
  \/ ClickDownloadArea
  \/ DownloadNext
  \/ DownloadSettled
  \/ ClickClearCache
  \/ ClearSettled
  \/ TimerUpdateCacheSize
  \/ SetCacheSize
  \/ \E t \in UiTasks : Step(t, UiBlobs)

UiSpec == UiInit /\ [][UiNext]_vars

\* The same, where pending requests are answered and settled promises resume
\* their awaiters.
UiFairSpec ==
  /\ UiSpec
  /\ WF_vars(Step(1, UiBlobs))
  /\ WF_vars(DownloadNext)
  /\ WF_vars(DownloadSettled)

\* ----------------------------------------------- getTileUrls on its inputs
\* Bounding boxes: corners west and east of the antimeridian, on it and
\* between; latitudes beyond the Mercator square, inside it and on the equator.
Lngs == {Deg(0 - 200), Deg(0 - 180), Deg(0 - 90), Deg(10), Deg(180), Deg(200)}
Lats == {LatDeg(89), LatDeg(66), LatDeg(0), LatDeg(0 - 45), LatDeg(0 - 89)}
AreaBounds == [west : Lngs, east : Lngs, north : Lats, south : Lats]

\* Bounding boxes whose sides are the edges of one tile (x, y) at zoom EdgeZoom.
EdgeZoom == 10
EdgeLat(y) == IF 2 * y = 2^EdgeZoom THEN LatDeg(0) ELSE LatEdge(EdgeZoom, y)
TileEdgeBounds(x, y) ==
  [west |-> x * (Deg(360) \div 2^EdgeZoom) - Deg(180),
   east |-> (x + 1) * (Deg(360) \div 2^EdgeZoom) - Deg(180),
   north |-> EdgeLat(y),
   south |-> EdgeLat(y + 1)]
EdgeTiles == {<<0, 0>>, <<300, 511>>, <<512, 512>>, <<700, 200>>, <<1023, 1023>>}

\* The bounds of a download: one point.
PointBounds ==
  [west |-> Deg(10), east |-> Deg(10), north |-> LatDeg(45), south |-> LatDeg(45)]

\* currentZoom of a download, in quarters: -2.25, -1.5, 0, 0.5, 1.75, 10,
\* 13.25, 14, 15.25, 16, 17, 22
CurrentZooms == {0 - 9, 0 - 6, 0, 2, 7, 40, 53, 56, 61, 64, 68, 88}

\* Tile server templates: the one App passes, one without {y}, one with a
\* second {x}.
AppTemplate == <<"https://demotiles.maplibre.org/tiles/", "{z}", "/", "{x}", "/", "{y}", ".pbf">>
NoYTemplate == <<"t/", "{z}", "/", "{x}">>
TwoXTemplate == <<"t/", "{z}", "/", "{x}", "/", "{y}", "?x=", "{x}">>
Templates == {AppTemplate, NoYTemplate, TwoXTemplate}

\* getTileUrls is entered: urls = [], z = minZoom
EnumCall(via, cz, b, mn, mx, tpl) ==
  [NoEnum EXCEPT !.pc = "loop", !.via = via, !.currentZoom = cz, !.bounds = b,
                 !.minZoom = mn, !.maxZoom = mx, !.template = tpl, !.z = mn]

EnumCalls ==
  {EnumCall("direct", 0, b, mn, mx, tpl) :
     b \in AreaBounds, mn \in 0..TileMaxZoom, mx \in 0..TileMaxZoom, tpl \in Templates}
  \cup
  {EnumCall("direct", 0, TileEdgeBounds(t[1], t[2]), EdgeZoom, EdgeZoom, tpl) :
     t \in EdgeTiles, tpl \in Templates}
  \cup
  {EnumCall("downloadAreaTiles", cz, PointBounds,
            ZoomWindow(cz).minZoom, ZoomWindow(cz).maxZoom, tpl) :
     cz \in CurrentZooms, tpl \in Templates}

TileInit ==
  /\ db = "null"
  /\ store = {}
  /\ now = 0
  /\ call = [t \in Tasks |-> IdleCall]
  /\ last = NoLast
  /\ dl = NoDownload
  /\ version = 0
  /\ atRestart = {}
  /\ ui = NoUi
  /\ enum \in EnumCalls

\* One iteration of for (let z = minZoom; z <= maxZoom; z++): the urls of
\* zoom level z are pushed.
EnumZoom ==
  /\ enum.pc = "loop"
  /\ enum.z <= enum.maxZoom
  /\ \E rn, rs \in {0, 1} :
       LET r == Ranges(enum.bounds, enum.z, rn, rs)
           t == XLoop(enum.z, r.xMin, r.xMax, r.yMin, r.yMax)
       IN enum' = [enum EXCEPT
                     !.z = @ + 1,
                     !.ranges = Append(@, r),
                     !.tiles = @ \o t,
                     !.urls = @ \o [i \in 1..Len(t) |->
                                      Url(enum.template, t[i].z, t[i].x, t[i].y)]]
  /\ UNCHANGED <<db, store, now, call, last, dl, version, atRestart, ui>>

\* The loop is over: return urls
EnumReturn ==
  /\ enum.pc = "loop"
  /\ enum.z > enum.maxZoom
  /\ enum' = [enum EXCEPT !.pc = "returned"]
  /\ UNCHANGED <<db, store, now, call, last, dl, version, atRestart, ui>>

\* downloadAreaTiles line 227 onwards: getTileUrls has returned, the loop
\* starts on its urls (or the call resolves on none).
DownloadEnumerated ==
  /\ enum.pc = "returned"
  /\ enum.via = "downloadAreaTiles"
  /\ dl.state = "idle"
  /\ \E cb \in BOOLEAN : DownloadStart(enum.urls, cb)
  /\ UNCHANGED ui

TileNext == EnumZoom \/ EnumReturn \/ DownloadEnumerated

TileSpec == TileInit /\ [][TileNext]_vars

\* ============================================================ properties
\* The sum of the size fields of a set of records.
RECURSIVE SumOfSizes(_)
SumOfSizes(tiles) ==
  IF tiles = {} THEN 0
  ELSE LET e == CHOOSE x \in tiles : TRUE IN e.size + SumOfSizes(tiles \ {e})

\* Call t has made a step.
Stepped(t) == call'[t] # call[t]

\* C1 Size accounting.  Under any interleaving of calls, every record's size
\* field is the size of its payload, and whenever TileCacheDB.getCacheSize
\* resolves (for the exported getCacheSize, for cacheTile or for
\* pruneOldTiles) the value it yields is the sum of the size fields of the
\* records then in the store.
C1_SizeAccounting ==
  /\ [](\A e \in store : e.size = BlobSize(e.blob))
  /\ [][\A t \in Tasks :
          /\ (/\ Ready(t, "size")
              /\ call[t].op = "getCacheSize"
              /\ call'[t].pc = "done"
              /\ ~call'[t].storageErr)
             => call'[t].result = Number(SumOfSizes(store))
          /\ (/\ call[t].pc \in {"size", "pruneSize"}
              /\ call'[t].pc # call[t].pc
              /\ call'[t].pc \in {"pruneSize", "pruneCursor", "put"})
             => call'[t].currentSize = SumOfSizes(store)]_vars

C1_Witness ==
  \E t \in Tasks :
    /\ call[t].op = "getCacheSize"
    /\ call[t].pc = "done"
    /\ ~call[t].storageErr
    /\ Cardinality(store) = 2
    /\ call[t].result = Number(SumOfSizes(store))

\* C2 Quota enforcement.  In a sequential run, when cacheTile has fetched a
\* payload of size s and read a total with total + s > MAX_CACHE_SIZE, then
\* at the moment it is about to put the payload the store's total is at most
\* 0.8 * MAX_CACHE_SIZE, or the store is empty.
C2_QuotaEnforcement ==
  (/\ call[1].op = "cacheTile"
   /\ call[1].pc = "put"
   /\ call[1].currentSize + BlobSize(call[1].blob) > MAX_CACHE_SIZE)
  => (SumOfSizes(store) <= PruneTarget \/ store = {})

C2_Witness ==
  /\ call[1].op = "cacheTile"
  /\ call[1].pc = "put"
  /\ call[1].currentSize + BlobSize(call[1].blob) > MAX_CACHE_SIZE
  /\ call[1].deletedSize > 0
  /\ store # {}
  /\ SumOfSizes(store) <= PruneTarget

\* The spec's end-to-end example, in tenths of the quota: tiles of 4 tenths
\* written at t=1 and t=2, and a third of 3 tenths written at t=3.
Example1 == TileData(1, 4, 1)
Example2 == TileData(2, 4, 2)
Example3 == TileData(3, 3, 3)

\* C3 End-to-end example (the claim as stated).  In a sequential run, when
\* the store holds the tiles of 0.4 quota written at t=1 and t=2 and
\* cacheTile, having read the total 0.8 quota, puts a third tile of 0.3
\* quota at t=3, the tile of t=1 has been evicted: the final total is 0.7
\* quota and the first tile is absent.
C3_ExampleAsStated ==
  [][(/\ call[1].op = "cacheTile"
      /\ Ready(1, "put")
      /\ call[1].url = 3
      /\ call[1].blob = 3
      /\ now = 3
      /\ call[1].currentSize = 8 * Tenth
      /\ Example2 \in store
      /\ store \subseteq {Example1, Example2}
      /\ call'[1].pc = "done"
      /\ ~call'[1].storageErr)
     => (/\ SumOfSizes(store') = 7 * Tenth
         /\ Lookup(store', 1) = {}
         /\ store' = {Example2, Example3})]_vars

\* pruneOldTiles' cursor transaction completes in this step.
CursorDone(t) ==
  /\ Ready(t, "pruneCursor")
  /\ call'[t].pc # "pruneCursor"
  /\ ~call'[t].storageErr

\* C4 Eviction order.  A cursor pass of pruneOldTiles only deletes, every
\* record it deletes has a timestamp <= that of every record it leaves, and
\* on a store {A@t1, B@t2, C@t3}, t1 < t2 < t3, a pass that must free
\* exactly size(A) + size(B) deletes A and B and keeps C.
C4_EvictionOrder ==
  [][CursorDone(1) =>
       /\ store' \subseteq store
       /\ \A d \in store \ store' : \A k \in store' : d.timestamp <= k.timestamp
       /\ \A a, b, c \in store :
            (/\ store = {a, b, c}
             /\ a.timestamp < b.timestamp
             /\ b.timestamp < c.timestamp
             /\ call[1].currentSize - call[1].targetSize = a.size + b.size)
            => store' = {c}]_vars

C4_Witness ==
  /\ call[1].op = "pruneOldTiles"
  /\ call[1].pc = "done"
  /\ call[1].result = Void
  /\ call[1].deletedSize = 7 * Tenth
  /\ \E c \in store : store = {c} /\ c.blob = 4 /\ c.timestamp = 3

\* pruneOldTiles resolves in this step (by its early return or after its
\* cursor pass).
PruneResolves(t) ==
  /\ call[t].pc \in {"pruneSize", "pruneCursor"}
  /\ call'[t].pc \notin {"pruneSize", "pruneCursor"}
  /\ ~call'[t].storageErr

\* C5 Prune result.  Run alone, pruneOldTiles(target) resolves (it does not
\* reject, also when it empties the store) with total <= target or an empty
\* store, and what it has deleted is the shortest oldest-first prefix doing
\* so: every deleted record precedes every kept one in the index, and each
\* record was deleted while the total still exceeded the target.
C5_PruneResult ==
  [][PruneResolves(1) =>
       /\ call'[1].result.state # "rejected"
       /\ (SumOfSizes(store') <= call[1].targetSize \/ store' = {})
       /\ store' \subseteq store
       /\ \A d \in store \ store' :
            /\ \A k \in store' : IndexBefore(d, k)
            /\ SumOfSizes({x \in store : IndexBefore(d, x)}) > call[1].targetSize]_vars

C5_Witness ==
  /\ call[1].op = "pruneOldTiles"
  /\ call[1].pc = "done"
  /\ call[1].result = Void
  /\ call[1].deletedSize = 3 * Tenth
  /\ Cardinality(store) = 2

\* C6 Never refuse a write.  Under any interleaving, a cacheTile call whose
\* fetch was ok and that met no storage failure settles only by its put:
\* when it resolves, the store holds its payload under its url, whether or
\* not it pruned and whatever the prune freed.
C6_NeverRefuseWrite ==
  [][\A t \in Tasks :
       (/\ call[t].op = "cacheTile"
        /\ call[t].pc # "done"
        /\ call'[t].pc = "done"
        /\ call'[t].fetched = "ok"
        /\ ~call'[t].storageErr)
       => /\ call'[t].result = Void
          /\ \E e \in store' : e.url = call[t].url /\ e.blob = call[t].blob]_vars

C6_Witness ==
  \E t \in Tasks :
    /\ call[t].op = "cacheTile"
    /\ call[t].pc = "done"
    /\ call[t].fetched = "ok"
    /\ ~call[t].storageErr
    /\ call[t].pruned
    /\ \E e \in store : e.url = call[t].url /\ e.blob = call[t].blob
    /\ SumOfSizes(store) > MAX_CACHE_SIZE

\* C7 Quota exceeded only on an eviction shortfall (the claim as stated).
\* In a sequential run, when a cacheTile completes its put and the total is
\* then above MAX_CACHE_SIZE, the store was empty before the insert or the
\* payload alone is larger than MAX_CACHE_SIZE.
C7_OverQuotaOnlyOnShortfall ==
  [][(/\ call[1].op = "cacheTile"
      /\ Ready(1, "put")
      /\ call'[1].pc = "done"
      /\ ~call'[1].storageErr
      /\ SumOfSizes(store') > MAX_CACHE_SIZE)
     => (store = {} \/ BlobSize(call[1].blob) > MAX_CACHE_SIZE)]_vars

\* C8 Idempotent caching.  In a sequential run, when cacheTile(url) has
\* settled without failure and cacheTile(url) is called next, the second
\* call makes no fetch and no step of it changes the store; it ends at its
\* lookup, resolving to void, and the payload under url stays the one that
\* was there when the first call settled.
C8_IdempotentCaching ==
  [][(/\ last.url # NoUrl
      /\ call[1].op = "cacheTile"
      /\ call[1].url = last.url
      /\ Running(1))
     => /\ store' = store
        /\ call'[1].fetches = 0
        /\ call'[1].pc \in {"get", "done"}
        /\ call'[1].pc = "done" => call'[1].result = Void
        /\ \E e \in store' : e.url = last.url /\ e.blob = last.blob]_vars

C8_Witness ==
  /\ last.url # NoUrl
  /\ last.blob # NoBlob
  /\ call[1].op = "cacheTile"
  /\ call[1].url = last.url
  /\ call[1].pc = "done"
  /\ ~call[1].storageErr
  /\ call[1].fetches = 0
  /\ call[1].result = Void
  /\ \E e \in store : e.url = last.url /\ e.blob = last.blob

\* C9 Fetch failure is contained.  Under any interleaving, no step of a
\* cacheTile call up to its fetch changes the store, and when its fetch
\* throws or answers non-ok the call ends there: one fetch made, the store
\* (records, timestamps, total) as it was, the promise resolved to void.
C9_FetchFailureContained ==
  [][\A t \in Tasks :
       (call[t].op = "cacheTile" /\ Running(t) /\ Stepped(t)) =>
         /\ call'[t].fetched # "ok" => store' = store
         /\ call'[t].fetched \in {"throw", "notok"} =>
              /\ call'[t].fetches = 1
              /\ call'[t].pc = "done"
              /\ call'[t].result = Void]_vars

C9_Witness ==
  \E t \in Tasks :
    /\ call[t].op = "cacheTile"
    /\ call[t].pc = "done"
    /\ call[t].fetched \in {"throw", "notok"}
    /\ call[t].fetches = 1
    /\ call[t].result = Void
    /\ store # {}

\* C10 Fail-open boundary.  A settled call of an exported function is never
\* rejected, and one that met a storage failure (open, get, put, getAll,
\* clear or cursor request) has resolved to void (cacheTile), null
\* (getCachedTile), 0 (getCacheSize), void (clearCache).
C10_FailOpen ==
  \A t \in Tasks :
    (call[t].op \in ExportedOps /\ call[t].pc = "done") =>
      /\ call[t].result.state = "resolved"
      /\ call[t].storageErr =>
           /\ call[t].op = "cacheTile" => call[t].result = Void
           /\ call[t].op = "getCachedTile" => call[t].result = Null
           /\ call[t].op = "getCacheSize" => call[t].result = Number(0)
           /\ call[t].op = "clearCache" => call[t].result = Void

C10_Witness ==
  \E t \in Tasks :
    /\ call[t].op = "getCacheSize"
    /\ call[t].pc = "done"
    /\ call[t].storageErr
    /\ call[t].result = Number(0)
    /\ store # {}

\* C11 Clear is total.  In a sequential run (nothing else in flight), once
\* clearCache has resolved without a storage failure, getCacheSize yields 0
\* and get(key) finds nothing for every key, those stored before the clear
\* included.
C11_ClearIsTotal ==
  (call[1].op = "clearCache" /\ call[1].pc = "done" /\ ~call[1].storageErr) =>
    /\ call[1].result = Void
    /\ CacheSizeOf(store) = 0
    /\ \A u \in Urls : Lookup(store, u) = {}

C11_Witness ==
  /\ call[1].op = "clearCache"
  /\ call[1].pc = "done"
  /\ ~call[1].storageErr
  /\ call[1].cleared >= 2
  /\ CacheSizeOf(store) = 0

\* The records of other keys than u.
Others(tiles, u) == {e \in tiles : e.url # u}

\* Call t is at store.put and the request succeeds in this step.
PutStep(t) == Ready(t, "put") /\ Stepped(t) /\ ~call'[t].storageErr

\* C12 Key uniqueness and upsert.  Under any interleaving, no two records
\* share a url; a put leaves exactly one record under its url, with the new
\* payload, that payload's size and the time of the put, and every record of
\* another url as it was; on an existing url the number of records is
\* unchanged (the record is replaced in place).
C12_KeyUniquenessAndUpsert ==
  /\ [](\A a, b \in store : a.url = b.url => a = b)
  /\ [][\A t \in Tasks :
          PutStep(t) =>
            /\ Lookup(store', call[t].url) =
                 {[url |-> call[t].url, blob |-> call[t].blob,
                   timestamp |-> now, size |-> BlobSize(call[t].blob)]}
            /\ Others(store', call[t].url) = Others(store, call[t].url)
            /\ Lookup(store, call[t].url) # {} =>
                 Cardinality(store') = Cardinality(store)]_vars

C12_Witness ==
  \E t \in Tasks :
    /\ call[t].op = "cacheTile"
    /\ call[t].pc = "done"
    /\ call[t].replaced
    /\ Cardinality(store) = 2
    /\ \E e \in store :
         /\ e.url = call[t].url
         /\ e.blob = call[t].blob
         /\ e.timestamp = now
         /\ now > 0
    /\ \E e \in store : e.url # call[t].url /\ e.timestamp < now

\* A download has just resolved: nothing has been called since.
JustResolved ==
  /\ dl.state = "resolved"
  /\ call[1].op = "cacheTile"
  /\ call[1].pc = "done"

\* The download was given onProgress, started on an empty store, met no
\* storage failure, and the fetch failed for some but not all of its urls.
SomeFetchesFailed ==
  /\ JustResolved
  /\ dl.onProgress
  /\ dl.fromEmpty
  /\ dl.storageErrs = 0
  /\ dl.failed >= 1
  /\ dl.failed < Len(dl.urls)

\* The last value onProgress was called with is exactly 100.
LastProgressIs100 ==
  /\ dl.reported # <<>>
  /\ dl.reported[Len(dl.reported)].num = 100 * dl.reported[Len(dl.reported)].den

C14_DownloadCompletes ==
  /\ [](dl.state # "rejected")
  /\ [](dl.state = "running" =>
          /\ dl.completed < Len(dl.urls)
          /\ dl.attempted = SubSeq(dl.urls, 1, dl.completed + 1))
  /\ [](dl.state = "resolved" =>
          /\ dl.attempted = dl.urls
          /\ dl.completed = Len(dl.urls))
  /\ (dl.state = "running") ~> (dl.state = "resolved")

C14_Witness ==
  /\ dl.state = "resolved"
  /\ Len(dl.urls) = 3
  /\ dl.attempted = dl.urls
  /\ dl.failed >= 1
  /\ dl.storageErrs >= 1
  /\ call[1].op = "cacheTile"
  /\ call[1].result = Void

\* Fractions a and b (num/den, den > 0): a < b
FracLess(a, b) == a.num * b.den < b.num * a.den

\* C15 Progress reporting.  In a download that was given onProgress, the
\* callback has been called once per url attempted, the i-th call with
\* i / totalCount * 100; every value reported is above 0 and at most 100, and
\* each is strictly greater than the one before.  Without the callback
\* nothing is reported.
C15_ProgressReporting ==
  /\ ~dl.onProgress => dl.reported = <<>>
  /\ dl.onProgress =>
       /\ Len(dl.reported) = dl.completed
       /\ \A i \in 1..Len(dl.reported) :
            /\ dl.reported[i].den > 0
            /\ dl.reported[i].num * Len(dl.urls) = i * 100 * dl.reported[i].den
            /\ dl.reported[i].num > 0
            /\ dl.reported[i].num <= 100 * dl.reported[i].den
       /\ \A i \in 1..(Len(dl.reported) - 1) :
            FracLess(dl.reported[i], dl.reported[i + 1])

C15_Witness ==
  /\ dl.state = "resolved"
  /\ dl.onProgress
  /\ Len(dl.urls) = 3
  /\ Len(dl.reported) = 3
  /\ FracLess(dl.reported[1], dl.reported[2])
  /\ FracLess(dl.reported[2], dl.reported[3])
  /\ dl.hits + dl.failed >= 1

\* C16 Sequential processing.  Within a download, cacheTile is called with
\* the next url of the list only when the call before it has settled, so the
\* calls started exceed the calls completed by at most one; the call in
\* flight is the one on url number completed + 1 of the list, and the urls
\* are taken in the order of the list.
C16_SequentialProcessing ==
  /\ [](dl.state = "running" =>
          /\ Len(dl.attempted) - dl.completed = 1
          /\ call[1].op = "cacheTile"
          /\ call[1].url = dl.urls[dl.completed + 1])
  /\ [](dl.state = "resolved" => Len(dl.attempted) = dl.completed)
  /\ [][(dl'.attempted # dl.attempted /\ dl'.attempted # <<>>) =>
          /\ ~Running(1)
          /\ Len(dl'.attempted) <= Len(dl'.urls)
          /\ \A i \in 1..Len(dl'.attempted) : dl'.attempted[i] = dl'.urls[i]
          /\ call'[1].url = dl'.urls[Len(dl'.attempted)]
          /\ Len(dl'.attempted) > 1 =>
               /\ dl.state = "running"
               /\ dl'.attempted = Append(dl.attempted, dl.urls[Len(dl.attempted) + 1])
               /\ dl'.completed = Len(dl.attempted)]_vars

C16_Witness ==
  /\ dl.state = "running"
  /\ dl.urls = <<2, 1, 2>>
  /\ dl.attempted = <<2, 1>>
  /\ dl.completed = 1
  /\ call[1].url = 1
  /\ call[1].pc = "fetch"

\* C17 Already-cached tiles are skipped.  In a running download, when the
\* get of cacheTile finds a record under the url, the call ends there: no
\* fetch made, the store as it was, resolved to void; and the loop then
\* counts the url as completed (and reports progress if it has a callback)
\* without touching the store.
C17_CachedTilesSkipped ==
  [][/\ (/\ dl.state = "running"
         /\ Ready(1, "get")
         /\ Stepped(1)
         /\ ~call'[1].storageErr
         /\ Lookup(store, call[1].url) # {}) =>
           /\ store' = store
           /\ call'[1].pc = "done"
           /\ call'[1].fetches = 0
           /\ call'[1].result = Void
     /\ (/\ dl.state = "running"
         /\ call[1].pc = "done"
         /\ call[1].fetches = 0
         /\ ~call[1].storageErr
         /\ dl' # dl) =>
           /\ store' = store
           /\ dl'.completed = dl.completed + 1
           /\ dl'.hits = dl.hits + 1
           /\ dl.onProgress => Len(dl'.reported) = Len(dl.reported) + 1]_vars

C17_Witness ==
  /\ JustResolved
  /\ dl.onProgress
  /\ ~dl.fromEmpty
  /\ Len(dl.urls) = 2
  /\ dl.hits = 2
  /\ dl.completed = 2
  /\ LastProgressIs100
  /\ call[1].fetches = 0

\* The calls whose indexedDB.open request is pending.
OpensInFlight == {t \in Tasks : call[t].opening}

\* C18 Single-flight open, as stated: at most one open request is pending at
\* any time.
C18_SingleFlightOpen == Cardinality(OpensInFlight) <= 1

\* C19 Prune is invoked whenever an insert would exceed the quota, as stated:
\* under any interleaving, a put of a payload below 20% of the quota that
\* takes the total from at most MAX_CACHE_SIZE to above it belongs to a
\* cacheTile call that has called pruneOldTiles(0.8 * MAX_CACHE_SIZE).
C19_PruneBeforeOverQuotaPut ==
  [][\A t \in Tasks :
       (/\ PutStep(t)
        /\ BlobSize(call[t].blob) * 5 < MAX_CACHE_SIZE
        /\ CacheSizeOf(store) <= MAX_CACHE_SIZE
        /\ CacheSizeOf(store') > MAX_CACHE_SIZE) =>
          call[t].pruned]_vars

\* Call s is a cacheTile of url u that missed, fetched and has put.
HasPut(s, u) ==
  /\ call[s].op = "cacheTile"
  /\ call[s].url = u
  /\ call[s].pc = "done"
  /\ call[s].fetched = "ok"
  /\ ~call[s].storageErr

\* C20 Last writer wins.  When two cacheTile calls of one url overlap (both
\* miss, both fetch) and one has put, the put of the other leaves exactly one
\* record under the url, with the payload and the time of this later put, and
\* the total counts the url once: the other records' sizes plus this payload.
C20_LastWriterWins ==
  [][\A t \in Tasks :
       (PutStep(t) /\ \E s \in Tasks \ {t} : HasPut(s, call[t].url)) =>
         /\ Cardinality(Lookup(store', call[t].url)) = 1
         /\ \A e \in Lookup(store', call[t].url) :
              /\ e.blob = call[t].blob
              /\ e.timestamp = now
              /\ e.size = BlobSize(call[t].blob)
         /\ CacheSizeOf(store') =
              SumOfSizes(Others(store, call[t].url)) + BlobSize(call[t].blob)]_vars

C20_Witness ==
  \E t \in Tasks : \E s \in Tasks \ {t} :
    /\ HasPut(t, call[t].url)
    /\ HasPut(s, call[t].url)
    /\ call[t].replaced
    /\ ~call[s].replaced
    /\ call[s].blob # call[t].blob
    /\ Lookup(store, call[t].url) =
         {[url |-> call[t].url, blob |-> call[t].blob, timestamp |-> 1,
           size |-> BlobSize(call[t].blob)]}
    /\ CacheSizeOf(store) = BlobSize(call[t].blob)

\* C21 Reads do not affect eviction order.  In a sequential run, no step of a
\* getCachedTile or getCacheSize call, and no get of a cacheTile call (hit or
\* miss), changes the store: every record keeps its timestamp, payload and
\* size, and so its place in the order of the 'timestamp' index the prune
\* walks.
C21_ReadsKeepEvictionOrder ==
  [][(/\ Stepped(1)
      /\ \/ call[1].op \in {"getCachedTile", "getCacheSize"}
         \/ call[1].op = "cacheTile" /\ call[1].pc = "get") =>
        /\ store' = store
        /\ store # {} => CursorFirst(store') = CursorFirst(store)]_vars

C21_Witness ==
  /\ call[1].op = "getCachedTile"
  /\ call[1].pc = "done"
  /\ call[1].result.type = "objectURL"
  /\ Cardinality(store) >= 2
  /\ CursorFirst(store).url = call[1].url
  /\ CursorFirst(store).timestamp < now
  /\ \E e \in store : e.timestamp > CursorFirst(store).timestamp

\* The template has each of {z}, {x}, {y}, set apart by literal text.
HasPlaceholders(tpl) ==
  \A p \in {"{z}", "{x}", "{y}"} : \E i \in 1..Len(tpl) : tpl[i] = p

\* Tile a comes before tile b: by zoom, then x, then y.
TileBefore(a, b) ==
  \/ a.z < b.z
  \/ a.z = b.z /\ a.x < b.x
  \/ a.z = b.z /\ a.x = b.x /\ a.y < b.y

\* C22 Tile enumeration order and uniqueness.  For a template with {z}, {x}
\* and {y}, the i-th url is the template with the i-th tile's z, x, y put in,
\* the tiles come by zoom ascending, then x ascending, then y ascending, and
\* no url occurs twice.
C22_EnumerationOrder ==
  HasPlaceholders(enum.template) =>
    /\ Len(enum.urls) = Len(enum.tiles)
    /\ \A i \in 1..Len(enum.tiles) : \A j \in 1..Len(enum.tiles) :
         i < j =>
           /\ TileBefore(enum.tiles[i], enum.tiles[j])
           /\ enum.urls[i] # enum.urls[j]

C22_Witness ==
  /\ enum.pc = "returned"
  /\ enum.template = AppTemplate
  /\ enum.minZoom = 0
  /\ enum.maxZoom = 2
  /\ Len(enum.urls) = 9
  /\ enum.urls[1] = "https://demotiles.maplibre.org/tiles/0/0/0.pbf"
  /\ enum.urls[9] = "https://demotiles.maplibre.org/tiles/2/3/2.pbf"

Product(r) == (r.xMax - r.xMin + 1) * (r.yMax - r.yMin + 1)
ProductOfSpans(r) == Max(0, r.xMax - r.xMin + 1) * Max(0, r.yMax - r.yMin + 1)

\* The sums of these over the levels visited.
RECURSIVE SumOfProducts(_)
SumOfProducts(ranges) ==
  IF ranges = <<>> THEN 0 ELSE Product(Head(ranges)) + SumOfProducts(Tail(ranges))

RECURSIVE SumOfSpans(_)
SumOfSpans(ranges) ==
  IF ranges = <<>> THEN 0 ELSE ProductOfSpans(Head(ranges)) + SumOfSpans(Tail(ranges))

\* C23 as stated: for every bounds the number of urls is the sum over the
\* levels of (xMax - xMin + 1) * (yMax - yMin + 1).
C23_AsStated ==
  enum.pc = "returned" => Len(enum.urls) = SumOfProducts(enum.ranges)

\* C23 Tile enumeration count, amended.  The number of urls is the sum over
\* the levels of max(0, xMax - xMin + 1) * max(0, yMax - yMin + 1): a level
\* whose clamped range is empty on one axis adds nothing (the product as
\* stated is negative there, or positive when both ranges are empty).
C23_EnumerationCount ==
  /\ Len(enum.urls) = SumOfSpans(enum.ranges)
  /\ Len(enum.ranges) = enum.z - enum.minZoom
  /\ \A i \in 1..Len(enum.ranges) : enum.ranges[i].z = enum.minZoom + i - 1

C23_Witness ==
  /\ enum.pc = "returned"
  /\ Len(enum.ranges) = 3
  /\ Product(enum.ranges[1]) = 1
  /\ Product(enum.ranges[2]) = 0
  /\ Product(enum.ranges[3]) < 0
  /\ Len(enum.urls) = 1

\* C24 Tile index clamping.  Every (z, x, y) put into a url has
\* 0 <= x <= 2^z - 1 and 0 <= y <= 2^z - 1, whatever the bounds.
C24_IndexClamping ==
  \A i \in 1..Len(enum.tiles) :
    /\ 0 <= enum.tiles[i].x
    /\ enum.tiles[i].x <= 2^(enum.tiles[i].z) - 1
    /\ 0 <= enum.tiles[i].y
    /\ enum.tiles[i].y <= 2^(enum.tiles[i].z) - 1

C24_Witness ==
  /\ enum.pc = "returned"
  /\ enum.bounds.west = Deg(0 - 200)
  /\ enum.bounds.east = Deg(200)
  /\ enum.bounds.north = LatDeg(89)
  /\ enum.bounds.south = LatDeg(0 - 89)
  /\ enum.minZoom = 0
  /\ enum.maxZoom = 2
  /\ Len(enum.tiles) = 1 + 4 + 16

\* C25 Single-tile bounding box, as stated: bounds that are the edges of one
\* tile (x, y) at zoom 10, with minZoom = maxZoom = 10, give exactly the one
\* url of (10, x, y).
C25_SingleTile ==
  \A t \in EdgeTiles :
    (/\ enum.pc = "returned"
     /\ enum.bounds = TileEdgeBounds(t[1], t[2])
     /\ enum.minZoom = EdgeZoom
     /\ enum.maxZoom = EdgeZoom) =>
       enum.tiles = <<[z |-> EdgeZoom, x |-> t[1], y |-> t[2]]>>

\* The levels from lo to hi, ascending.
Levels(lo, hi) == [i \in 1..Max(0, hi - lo + 1) |-> lo + i - 1]

\* C26 Zoom window.  A download enumerates the levels from
\* max(0, floor(currentZoom) - 1) to min(15, floor(currentZoom) + 2), each
\* once, ascending: at most 4 levels, none above 15 or below 0.
C26_ZoomWindow ==
  enum.via = "downloadAreaTiles" =>
    LET f == enum.currentZoom \div 4
        lo == IF f - 1 < 0 THEN 0 ELSE f - 1
        hi == IF f + 2 > 15 THEN 15 ELSE f + 2
    IN /\ enum.minZoom = lo
       /\ enum.maxZoom = hi
       /\ \A i \in 1..Len(enum.ranges) :
            enum.ranges[i].z >= 0 /\ enum.ranges[i].z <= 15
       /\ Len(enum.ranges) <= 4
       /\ enum.pc = "returned" =>
            [i \in 1..Len(enum.ranges) |-> enum.ranges[i].z] = Levels(lo, hi)

C26_Witness ==
  /\ enum.via = "downloadAreaTiles"
  /\ enum.pc = "returned"
  /\ enum.currentZoom = 53
  /\ [i \in 1..Len(enum.ranges) |-> enum.ranges[i].z] = <<12, 13, 14, 15>>
  /\ Len(enum.urls) = 4

\* An open request is issued by this step.
OpenIssued(t) == call'[t].opening /\ ~call[t].opening

\* C27  Lazy, once-only open.  Before any call nothing has been opened; an
\* open request is issued only by a call that stands at a store operation and
\* finds no handle; and in a sequential run, once an open has succeeded the
\* handle stays and no later get, put, getCacheSize, clear or prune issues
\* another open.
C27_LazyOnceOnlyOpen ==
  [][/\ (\A t \in Tasks : call[t].op = "none") =>
          db = "null" /\ version = 0 /\ \A t \in Tasks : ~call[t].opening
     /\ \A t \in Tasks :
          OpenIssued(t) => db = "null" /\ call[t].pc \in StorePcs
     /\ db = "open" =>
          db' = "open" /\ \A t \in Tasks : ~call'[t].opening]_vars

\* The handle is open and a later call has run its store operations on it: a
\* second entry has been put.
C27_Witness ==
  /\ db = "open"
  /\ call[1].op = "cacheTile" /\ call[1].pc = "done" /\ ~call[1].storageErr
  /\ Cardinality(store) >= 2

\* C28  Durability across restart.  After a restart (the handle is null again)
\* the store holds every entry it held when the process ended, with the same
\* payload, size and timestamp, and reopening the existing database leaves
\* the store as it is: it is neither cleared nor created again.
C28_DurableAcrossRestart ==
  [][/\ db = "null" => store = atRestart
     /\ db = "null" /\ db' = "open" => store' = store /\ version' = DB_VERSION
     /\ db = "open" /\ db' = "null" => store' = store /\ version' = version]_vars

\* The database has been reopened after a restart that found entries in it,
\* and a read has found one of them.
C28_Witness ==
  /\ db = "open"
  /\ atRestart # {}
  /\ atRestart \subseteq store
  /\ call[1].op = "getCachedTile" /\ call[1].pc = "done"
  /\ \E d \in atRestart : d.url = call[1].url /\ call[1].result = ObjectURL(d.blob)

\* C29  Prune under interleaving.  pruneOldTiles deletes an entry only while
\* the total of the store is above its target, whatever other calls commit
\* between its size read and its delete pass.
C29_PruneOnlyAboveTarget ==
  [][\A t \in Tasks :
       Ready(t, "pruneCursor") /\ Stepped(t) /\ store' # store
         => CacheSizeOf(store) > call[t].targetSize]_vars

\* C30  Sequential quota invariant.  In a sequential run of cacheTile, prune
\* and clear calls in which no fetched payload is above 20% of
\* MAX_CACHE_SIZE, the total of the store is at most MAX_CACHE_SIZE after
\* every completed call; and after a cacheTile that called pruneOldTiles and
\* stored a payload of s bytes (no storage request failed) the total is at most 0.8 * MAX_CACHE_SIZE + s.
C30_SequentialQuota ==
  /\ (\A b \in SmallBlobs : BlobSize(b) * 5 <= MAX_CACHE_SIZE)
  /\ call[1].pc \in {"idle", "done"} => CacheSizeOf(store) <= MAX_CACHE_SIZE
  /\ (call[1].op = "cacheTile" /\ call[1].pc = "done" /\ call[1].pruned
        /\ ~call[1].storageErr)
       => CacheSizeOf(store) <= PruneTarget + BlobSize(call[1].blob)

\* A cacheTile found the store full, pruned it by deleting entries, stored its
\* payload, and the store is full to the byte again.
C30_Witness ==
  /\ call[1].op = "cacheTile" /\ call[1].pc = "done" /\ call[1].pruned
  /\ ~call[1].storageErr
  /\ call[1].deletedSize > 0
  /\ CacheSizeOf(store) = MAX_CACHE_SIZE

\* The entries of the store for url u.
EntriesOf(tiles, u) == {d \in tiles : d.url = u}

\* cacheTile reads a size that leaves room for its payload: it does not call
\* pruneOldTiles.
NoPruneWithRoom(t) ==
  (Ready(t, "size") /\ Stepped(t) /\ call[t].op = "cacheTile"
     /\ ~call'[t].storageErr
     /\ CacheSizeOf(store) + BlobSize(call[t].blob) <= MAX_CACHE_SIZE)
    => call'[t].pc = "put" /\ ~call'[t].pruned /\ store' = store

\* pruneOldTiles reads a total at or below its target: it returns and deletes
\* nothing.
NoPruneAtTarget(t) ==
  (Ready(t, "pruneSize") /\ Stepped(t) /\ ~call'[t].storageErr
     /\ CacheSizeOf(store) <= call[t].targetSize)
    => call'[t].pc # "pruneCursor" /\ store' = store

\* The put of a cacheTile that did not prune.
PutWithRoom(t) == PutStep(t) /\ call[t].op = "cacheTile" /\ ~call[t].pruned

\* The claim as it reads: a cacheTile that had room leaves every entry that
\* was in the store as it was, whatever else runs.
C31_AsStated ==
  [][\A t \in Tasks : PutWithRoom(t) => store \subseteq store']_vars

\* C31  No eviction without need.  A cacheTile that read a size with room for
\* its payload does not prune, and its put leaves every entry of another url
\* as it was and makes its payload the one entry of its url (a new entry, or
\* in place of one that an overlapping call stored since the lookup); a
\* pruneOldTiles that reads a total at or below its target deletes nothing.
C31_NoEvictionWithoutNeed ==
  [][\A t \in Tasks :
       /\ NoPruneWithRoom(t)
       /\ NoPruneAtTarget(t)
       /\ PutWithRoom(t) =>
            /\ \A d \in store : d.url # call[t].url => d \in store'
            /\ store' \subseteq store \cup {TileData(call[t].url, call[t].blob, now)}
            /\ EntriesOf(store', call[t].url)
                 = {TileData(call[t].url, call[t].blob, now)}]_vars

\* A cacheTile that had room has stored its payload next to an entry that was
\* already there.
C31_Witness ==
  \E t \in Tasks :
    /\ call[t].op = "cacheTile" /\ call[t].pc = "done"
    /\ call[t].fetched = "ok" /\ ~call[t].pruned /\ ~call[t].storageErr
    /\ EntriesOf(store, call[t].url) # {}
    /\ \E d \in store : d.url # call[t].url
    /\ CacheSizeOf(store) <= MAX_CACHE_SIZE

\* floor(currentZoom) of the download
FloorZoom == enum.currentZoom \div ZoomUnit

\* C32  Empty zoom window.  The window of a download has a level exactly when
\* 0 <= floor(currentZoom) + 2 and floor(currentZoom) <= 16.  On an empty
\* window (floor(currentZoom) >= 17 among them) getTileUrls returns no url
\* and downloadAreaTiles resolves at once: no cacheTile call, so no fetch, and
\* no call of onProgress.
C32_EmptyZoomWindow ==
  enum.via = "downloadAreaTiles" =>
    /\ enum.minZoom <= enum.maxZoom <=> (0 <= FloorZoom + 2 /\ FloorZoom <= 16)
    /\ FloorZoom >= 17 => enum.minZoom > enum.maxZoom
    /\ enum.minZoom > enum.maxZoom =>
         /\ enum.urls = <<>>
         /\ enum.ranges = <<>>
         /\ dl.state \in {"idle", "resolved"}
         /\ dl.attempted = <<>>
         /\ dl.reported = <<>>
         /\ call[1] = IdleCall
    /\ (enum.minZoom <= enum.maxZoom /\ enum.pc = "returned"
          /\ HasPlaceholders(enum.template))
         => enum.urls # <<>>

\* A download at zoom 17 with a progress callback has resolved.
C32_Witness ==
  /\ enum.via = "downloadAreaTiles"
  /\ FloorZoom = 17
  /\ enum.pc = "returned"
  /\ dl.state = "resolved"
  /\ dl.onProgress

\* The clamped index range r has no column or no row.
EmptyRange(r) == r.xMin > r.xMax \/ r.yMin > r.yMax

\* C33  No wraparound.  A zoom level whose clamped xMin is above xMax (the
\* west side east of the east side, as for a box across the antimeridian) or
\* whose yMin is above yMax adds no url, whatever the other axis is; the urls
\* are those of the other levels only.
C33_NoWraparound ==
  /\ Len(enum.urls) = Len(enum.tiles)
  /\ \A i \in 1..Len(enum.ranges) :
       EmptyRange(enum.ranges[i]) =>
         \A j \in 1..Len(enum.tiles) : enum.tiles[j].z # enum.ranges[i].z
  /\ (\A i \in 1..Len(enum.ranges) : EmptyRange(enum.ranges[i]))
       => enum.urls = <<>>

\* A box from longitude 10 eastwards to -180 over levels 0 to 2: level 0 has
\* its one tile, levels 1 and 2 have rows but xMin > xMax, and add nothing.
C33_Witness ==
  /\ enum.pc = "returned"
  /\ enum.bounds.west = Deg(10) /\ enum.bounds.east = Deg(0 - 180)
  /\ Len(enum.ranges) = 3
  /\ \A i \in {2, 3} :
       /\ enum.ranges[i].xMin > enum.ranges[i].xMax
       /\ enum.ranges[i].yMin < enum.ranges[i].yMax
  /\ enum.tiles = <<[z |-> 0, x |-> 0, y |-> 0]>>

\* The open request of call t fails in this step.
OpenFailed(t) == call[t].opening /\ ~call'[t].opening /\ call'[t].storageErr

\* C34  Open failure is retried and harmless.  When an open fails the handle
\* stays null, the call that needed it ends at its catch (or rejects, for a
\* method without one) and the stored entries are as they were; a store
\* method that finds the handle null issues an open of its own and touches
\* the store only once the handle is there.
C34_OpenFailureHarmless ==
  [][\A t \in Tasks :
       /\ OpenFailed(t) =>
            /\ db = "null" /\ db' = "null"
            /\ store' = store /\ version' = version
            /\ call'[t].pc = "done"
            /\ call'[t].result = CatchDefault(call[t].op)
       /\ (db = "null" /\ Stepped(t) /\ call[t].pc \in StorePcs
             /\ ~call[t].opening /\ call'[t].pc # "idle")
            => OpenIssued(t) /\ call'[t].pc = call[t].pc
       /\ store' # store => db = "open"]_vars

\* An open has failed on a database that holds entries: the call has ended,
\* the handle is null and the entries are those the process started with.
C34_Witness ==
  /\ db = "null"
  /\ call[1].op = "cacheTile" /\ call[1].pc = "done" /\ call[1].storageErr
  /\ store # {}
  /\ store = atRestart

\* The calls of downloadAreaTiles and clearCache that are in flight.
DownloadRuns == dl.state = "running"
ClearRuns == call[2].op = "clearCache" /\ Running(2)

\* C35  UI mutual exclusion.  While cacheProgress is not null both buttons
\* are disabled; at most one downloadAreaTiles call runs at a time (a click
\* is taken only when none runs); and no clearCache is in flight while a
\* download runs.
C35_UiMutualExclusion ==
  /\ ui.cacheProgress # "null" => ~ButtonsEnabled
  /\ DownloadRuns => ui.cacheProgress # "null"
  /\ ButtonsEnabled => ~DownloadRuns /\ ~Running(1)
  /\ ~(DownloadRuns /\ ClearRuns)

\* In this step a click on Download Area is handled while the map has given
\* no bounds.
ClickWithoutBounds ==
  ButtonsEnabled /\ ~ui.bounds /\ ui'.status = "Map bounds not available"
    /\ ui.status # ui'.status

\* C36  UI download state machine.  cacheProgress is a number exactly while
\* handleDownloadArea awaits its download; a download that was started
\* (cacheProgress set to 0) leads to cacheProgress being null again, whether
\* downloadAreaTiles resolves or rejects, and then the buttons are enabled;
\* a click while the map bounds are not available starts no download and
\* leaves cacheProgress null.
C36_UiDownloadStateMachine ==
  /\ [](ui.cacheProgress = "number" <=> ui.download = "awaiting")
  /\ [](ui.download = "idle" => ButtonsEnabled)
  /\ (ui.cacheProgress = "number") ~> (ui.cacheProgress = "null")
  /\ [][ClickWithoutBounds =>
          ui'.cacheProgress = "null" /\ dl' = dl /\ call' = call]_vars

\* A download that went over two urls has ended and the handler has set
\* cacheProgress back to null.
C36_Witness ==
  /\ ui.cacheProgress = "null"
  /\ ui.status = "Area downloaded successfully"
  /\ dl.state = "resolved"
  /\ dl.completed = 2
  /\ Len(dl.reported) = 2

=============================================================================
